---- MODULE Spec2Model ----
(***************************************************************************)
(* Model of the tracker core.                                              *)
(*                                                                         *)
(* Swarm (server side): the per-torrent registry (peer map, complete and   *)
(* incomplete counters, announce-event dispatch, peer lists, scrape).  One *)
(* action of Spec is one call of Swarm.prototype.announce or               *)
(* Swarm.prototype.scrape; the variables keep the registry, and, for the   *)
(* last call, its parameters, the registry before it, the notifications it *)
(* emitted, the callback invocations it made and whether it threw.         *)
(*                                                                         *)
(* HTTPTracker (client side): one tracker session (interval, tracker id,   *)
(* re-announce timer, requests in flight).  One action of SessionSpec and  *)
(* of ResponseSpec is one call of announce, scrape or setInterval, one     *)
(* timer tick, one completed HTTP request, or a change of the client's     *)
(* default announce options.                                               *)
(***************************************************************************)
EXTENDS Integers, Sequences, FiniteSets, TLC

VARIABLES peers, complete, incomplete, op, params, pre, emitted, cbs, threw

\* the HTTPTracker object, the live timers of the event loop, the owning
\* client, the HTTP requests in flight and a record of the last step
VARIABLES tracker, timers, client, pending, last

\* the most recent tracker id a successful announce response carried ("" if none)
VARIABLE received

swarmVars == <<peers, complete, incomplete, op, params, pre, emitted, cbs, threw>>

trackerVars == <<tracker, timers, client, pending, last, received>>

vars == <<swarmVars, trackerVars>>

(* ------------------------------ bounds --------------------------------- *)

\* announce calls that would take a counter outside -MaxCount..MaxCount are not explored
MaxCount == 3

\* numwant is drawn from 0..MaxWant
MaxWant == 1

(* ------------------------------ inputs --------------------------------- *)

\* the peers that announce: params.addr with the ip, port and peer_id sent with it
Endpoints ==
  { [addr |-> "A", ip |-> "10.0.0.1", port |-> 6881, peer_id |-> "idA"],
    [addr |-> "B", ip |-> "10.0.0.2", port |-> 6882, peer_id |-> "idB"],
    [addr |-> "C", ip |-> "10.0.0.3", port |-> 6883, peer_id |-> "idC"] }

Addrs == { e.addr : e \in Endpoints }

\* params.left: 0 (nothing left to download) or a positive number of bytes
Lefts == { 0, 1 }

\* params.event missing from the request
Absent == "absent"

\* the events a request can carry; "paused" stands for any unknown event string
Events == { "started", "stopped", "completed", "update", "empty", Absent, "paused" }

ParamsSet ==
  { [addr |-> e.addr, ip |-> e.ip, port |-> e.port, peer_id |-> e.peer_id,
     left |-> l, event |-> ev, numwant |-> n] :
      e \in Endpoints, l \in Lefts, ev \in Events, n \in 0..MaxWant }

(* --------------------------- JavaScript values ------------------------- *)

\* the value of a missing property, and of a call made without arguments
Undefined == [tag |-> "undefined"]

\* the tombstone that `stopped` stores in a slot
Null == [tag |-> "null"]

\* JavaScript truthiness of a slot value (a peer object is truthy)
Truthy(v) == v \notin { Undefined, Null }

(* ------------------------------ peer map ------------------------------- *)
(* this.peers is a plain object keyed by addr; for..in walks the keys in   *)
(* the order they were first assigned, and assigning to an existing key    *)
(* keeps its position.  It is modelled as a sequence of [addr, val] slots. *)

HasKey(ps, addr) == \E i \in 1..Len(ps) : ps[i].addr = addr

\* self.peers[params.addr]
Lookup(ps, addr) ==
  IF HasKey(ps, addr)
    THEN (CHOOSE s \in { ps[i] : i \in 1..Len(ps) } : s.addr = addr).val
    ELSE Undefined

\* this.peers[addr] = val
SetPeer(ps, addr, val) ==
  IF HasKey(ps, addr)
    THEN [ i \in 1..Len(ps) |-> IF ps[i].addr = addr
                                  THEN [addr |-> addr, val |-> val]
                                  ELSE ps[i] ]
    ELSE Append(ps, [addr |-> addr, val |-> val])

(* ------------------------------ handlers ------------------------------- *)
(* A handler maps the registry s = [peers, complete, incomplete] to        *)
(* [peers, complete, incomplete, emitted, called, threw]: the registry it  *)
(* leaves, the notifications it emitted, whether it invoked cb, and        *)
(* whether it threw.                                                       *)

Outcome(ps, c, i, em, called, thr) ==
  [peers |-> ps, complete |-> c, incomplete |-> i,
   emitted |-> em, called |-> called, threw |-> thr]

Emit(name, addr) == [name |-> name, addr |-> addr]

\* `return start()`: no binding named start exists, the call throws ReferenceError
start(s) == Outcome(s.peers, s.complete, s.incomplete, <<>>, FALSE, TRUE)

_onAnnounce_update(s, p, peer) ==
  IF ~Truthy(peer)
    THEN start(s)
    ELSE Outcome(s.peers, s.complete, s.incomplete,
                 <<Emit("update", p.addr)>>, TRUE, FALSE)

_onAnnounce_started(s, p, peer) ==
  IF Truthy(peer)
    THEN \* this._onAnnounce_update() is called without arguments
         _onAnnounce_update(s, Undefined, Undefined)
    ELSE Outcome(SetPeer(s.peers, p.addr,
                         [ip |-> p.ip, port |-> p.port, peerId |-> p.peer_id,
                          complete |-> FALSE]),
                 IF p.left = 0 THEN s.complete + 1 ELSE s.complete,
                 IF p.left = 0 THEN s.incomplete ELSE s.incomplete + 1,
                 <<Emit("start", p.addr)>>, TRUE, FALSE)

\* variant: the slot is tombstoned but neither counter is decremented
_onAnnounce_stopped_nodec(s, p, peer) ==
  IF ~Truthy(peer)
    THEN Outcome(s.peers, s.complete, s.incomplete, <<>>, FALSE, FALSE)
    ELSE Outcome(SetPeer(s.peers, p.addr, Null), s.complete, s.incomplete,
                 <<Emit("stop", p.addr)>>, TRUE, FALSE)

\* variant: the slot is deleted (`delete this.peers[params.addr]`) instead of tombstoned
_onAnnounce_stopped_delete(s, p, peer) ==
  IF ~Truthy(peer)
    THEN Outcome(s.peers, s.complete, s.incomplete, <<>>, FALSE, FALSE)
    ELSE Outcome(SelectSeq(s.peers, LAMBDA sl : sl.addr # p.addr),
                 IF peer.complete THEN s.complete - 1 ELSE s.complete,
                 IF peer.complete THEN s.incomplete ELSE s.incomplete - 1,
                 <<Emit("stop", p.addr)>>, TRUE, FALSE)

\* variant: the `if (!peer) return` guard is missing
_onAnnounce_stopped_noguard(s, p, peer) ==
  Outcome(SetPeer(s.peers, p.addr, Null),
          IF Truthy(peer) /\ peer.complete THEN s.complete - 1 ELSE s.complete,
          IF Truthy(peer) /\ peer.complete THEN s.incomplete ELSE s.incomplete - 1,
          <<Emit("stop", p.addr)>>, TRUE, FALSE)

_onAnnounce_stopped(s, p, peer) ==
  IF ~Truthy(peer)
    THEN Outcome(s.peers, s.complete, s.incomplete, <<>>, FALSE, FALSE)
    ELSE Outcome(SetPeer(s.peers, p.addr, Null),
                 IF peer.complete THEN s.complete - 1 ELSE s.complete,
                 IF peer.complete THEN s.incomplete ELSE s.incomplete - 1,
                 <<Emit("stop", p.addr)>>, TRUE, FALSE)

\* variant: the `if (peer.complete) return` guard is missing
_onAnnounce_completed_nocheck(s, p, peer) ==
  IF ~Truthy(peer)
    THEN start(s)
    ELSE Outcome(SetPeer(s.peers, p.addr, [peer EXCEPT !.complete = TRUE]),
                 s.complete + 1, s.incomplete - 1,
                 <<Emit("complete", p.addr)>>, TRUE, FALSE)

_onAnnounce_completed(s, p, peer) ==
  IF ~Truthy(peer)
    THEN start(s)
    ELSE IF peer.complete
      THEN Outcome(s.peers, s.complete, s.incomplete, <<>>, FALSE, FALSE)
      ELSE Outcome(SetPeer(s.peers, p.addr, [peer EXCEPT !.complete = TRUE]),
                   s.complete + 1, s.incomplete - 1,
                   <<Emit("complete", p.addr)>>, TRUE, FALSE)

(* ------------------------------ peer list ------------------------------ *)

RECURSIVE GetPeersLoop(_, _, _, _)
GetPeersLoop(ps, numwant, i, acc) ==
  IF i > Len(ps) THEN acc
  ELSE IF Len(acc) >= numwant THEN acc
  ELSE IF ~Truthy(ps[i].val) THEN GetPeersLoop(ps, numwant, i + 1, acc)
  ELSE GetPeersLoop(ps, numwant, i + 1,
                    Append(acc, [peer_id |-> ps[i].val.peerId,
                                 ip |-> ps[i].val.ip,
                                 port |-> ps[i].val.port]))

\* variant: the loop breaks on `peers.length > numwant`
_getPeers_offbyone(ps, numwant) == GetPeersLoop(ps, numwant + 1, 1, <<>>)

_getPeers(ps, numwant) == GetPeersLoop(ps, numwant, 1, <<>>)

(* ------------------------------ announce ------------------------------- *)

\* variant: every event without a handler is treated as an update
NormalEvent_default(ev) ==
  IF ev \in { "started", "stopped", "completed" } THEN ev ELSE "update"

\* the event after `if (!params.event || params.event === 'empty') params.event = 'update'`
NormalEvent(ev) == IF ev = Absent \/ ev = "empty" THEN "update" ELSE ev

\* the events for which self['_onAnnounce_' + event] is a function
Handlers == { "started", "stopped", "completed", "update" }

Dispatch(ev, s, p, peer) ==
  CASE ev = "started"   -> _onAnnounce_started(s, p, peer)
    [] ev = "stopped"   -> _onAnnounce_stopped(s, p, peer)
    [] ev = "completed" -> _onAnnounce_completed(s, p, peer)
    [] ev = "update"    -> _onAnnounce_update(s, p, peer)

\* the callback announce passes to the handler.  `peer` is the value read
\* before the handler ran; the assignment peer.complete = true reaches the
\* peer map only when the slot still holds that object (a handler replaces
\* the slot only by a tombstone, or by a new object when peer was falsy).
AnnounceCb(h, p, peer) ==
  LET ps == IF p.left = 0 /\ Truthy(peer) /\ Truthy(Lookup(h.peers, p.addr))
              THEN SetPeer(h.peers, p.addr,
                           [Lookup(h.peers, p.addr) EXCEPT !.complete = TRUE])
              ELSE h.peers
  IN  [peers |-> ps, complete |-> h.complete, incomplete |-> h.incomplete,
       emitted |-> h.emitted, threw |-> FALSE,
       cbs |-> <<[err |-> "null", complete |-> h.complete,
                  incomplete |-> h.incomplete,
                  peers |-> _getPeers(ps, p.numwant)]>>]

\* Swarm.prototype.announce: the registry, notifications, callback
\* invocations and exception that one call produces from registry s
announce(s, p) ==
  LET peer == Lookup(s.peers, p.addr)
      ev   == NormalEvent(p.event)
  IN  IF ev \in Handlers
        THEN LET h == Dispatch(ev, s, p, peer)
             IN  IF h.called
                   THEN AnnounceCb(h, p, peer)
                   ELSE [peers |-> h.peers, complete |-> h.complete,
                         incomplete |-> h.incomplete, emitted |-> h.emitted,
                         threw |-> h.threw, cbs |-> <<>>]
        ELSE [peers |-> s.peers, complete |-> s.complete,
              incomplete |-> s.incomplete, emitted |-> <<>>, threw |-> FALSE,
              cbs |-> <<[err |-> "invalid event"]>>]

\* Swarm.prototype.scrape
scrape(s) ==
  [peers |-> s.peers, complete |-> s.complete, incomplete |-> s.incomplete,
   emitted |-> <<>>, threw |-> FALSE,
   cbs |-> <<[err |-> "null", complete |-> s.complete,
              incomplete |-> s.incomplete]>>]

(* ======================= HTTPTracker (client side) ===================== *)

(* ------------------------------ values --------------------------------- *)

\* a numeric option or response field that is absent (null or undefined)
Nil == -1

\* client._intervalMs, the interval a new session starts with
ClientIntervalMs == 3000

\* client._numWant
ClientNumWant == 50

\* client._port
ClientPort == 6881

\* client._infoHash and client._peerId, as byte sequences
ClientInfoHash == <<1, 171>>
ClientPeerId == <<45, 87>>

\* buf.toString('binary'): one latin-1 character per byte
BinaryString(bytes) == [latin1 |-> bytes]

\* no binary string set yet
NoBinary == [latin1 |-> <<>>]

(* An announce URL is kept as its text up to the last '/', and the text    *)
(* after it split into stem and rest, where stem is "announce" exactly     *)
(* when that text begins with "announce".                                  *)
AnnounceUrls ==
  { [upto |-> "http://t", stem |-> "announce", rest |-> ""],
    [upto |-> "http://t/x", stem |-> "announce", rest |-> ".php?k=1"],
    [upto |-> "http://t/announce", stem |-> "peers", rest |-> ""] }

\* self._scrapeUrl of a session without scrape support
NoUrl == [upto |-> "", stem |-> "", rest |-> ""]

\* HTTP_SCRAPE_SUPPORT = /\/(announce)[^\/]*$/: '/announce' followed by no further '/'
HTTP_SCRAPE_SUPPORT(u) == u.stem = "announce"

\* announceUrl.slice(0, m.index) + '/scrape' + announceUrl.slice(m.index + 9)
ScrapeUrlOf(u) ==
  IF HTTP_SCRAPE_SUPPORT(u) THEN [u EXCEPT !.stem = "scrape"] ELSE NoUrl

\* function HTTPTracker (client, announceUrl, opts); opts.interval is pinned
\* (0 when the caller gave none), self._interval = null is handle Nil
HTTPTracker(c, announceUrl, pinned) ==
  [_opts        |-> [interval |-> pinned],
   _announceUrl |-> announceUrl,
   _intervalMs  |-> c._intervalMs,
   _interval    |-> Nil,
   _scrapeUrl   |-> ScrapeUrlOf(announceUrl),
   _trackerId   |-> ""]

\* client._defaultAnnounceOpts(): a new options object carrying the client's
\* current defaults (uploaded, downloaded, left, ... stand behind `base`)
DefaultAnnounceOpts(c) ==
  [base |-> c.defaults, trackerid |-> "", compact |-> Nil, numwant |-> Nil,
   info_hash |-> NoBinary, peer_id |-> NoBinary, port |-> Nil]

(* ---------------------------- operations ------------------------------- *)
(* An operation maps the world w = [tracker, timers, client] to the world  *)
(* it leaves, the requests it sent and the events it emitted on the client *)

World == [tracker |-> tracker, timers |-> timers, client |-> client]

Effect(t, tm, sent, ev) == [tracker |-> t, timers |-> tm, sent |-> sent, emitted |-> ev]

Event(name, payload) == [name |-> name, payload |-> payload]

\* HTTPTracker.prototype._request up to get.concat: the request that goes out
Request(kind, url, opts) == [kind |-> kind, url |-> url, opts |-> opts]

\* the options object after HTTPTracker.prototype.announce filled it in
AnnounceOpts(t, opts) ==
  [opts EXCEPT
     !.trackerid = IF t._trackerId # "" THEN t._trackerId ELSE @,
     !.compact   = IF @ = Nil THEN 1 ELSE @,
     !.numwant   = IF @ = Nil THEN ClientNumWant ELSE @,
     !.info_hash = BinaryString(ClientInfoHash),
     !.peer_id   = BinaryString(ClientPeerId),
     !.port      = ClientPort]

\* HTTPTracker.prototype.announce
HTTPTracker_announce(w, opts) ==
  Effect(w.tracker, w.timers,
         <<Request("announce", w.tracker._announceUrl, AnnounceOpts(w.tracker, opts))>>,
         <<>>)

\* the info_hash parameter(s) of a scrape.  opts.infoHash is an array of
\* hashes (form "array"), one hash (form "single", hashes holds it) or
\* absent; an empty array is truthy and [].toString('binary') is ''
ScrapeInfoHash(infoHash) ==
  IF infoHash.form = "array" /\ Len(infoHash.hashes) > 0
    THEN [ i \in 1..Len(infoHash.hashes) |-> BinaryString(infoHash.hashes[i]) ]
    ELSE IF infoHash.form = "array" THEN <<NoBinary>>
    ELSE IF infoHash.form = "single" THEN <<BinaryString(infoHash.hashes[1])>>
    ELSE <<BinaryString(ClientInfoHash)>>

\* variant: the request is sent although there is no scrape URL
HTTPTracker_scrape_noreturn(w, opts) ==
  Effect(w.tracker, w.timers,
         <<Request("scrape", w.tracker._scrapeUrl,
                   [info_hash |-> ScrapeInfoHash(opts.infoHash)])>>,
         IF w.tracker._scrapeUrl = NoUrl
           THEN <<Event("error", [message |-> "scrape not supported"])>> ELSE <<>>)

\* HTTPTracker.prototype.scrape
HTTPTracker_scrape(w, opts) ==
  IF w.tracker._scrapeUrl = NoUrl
    THEN Effect(w.tracker, w.timers, <<>>, <<Event("error", [message |-> "scrape not supported"])>>)
    ELSE Effect(w.tracker, w.timers,
                <<Request("scrape", w.tracker._scrapeUrl,
                          [info_hash |-> ScrapeInfoHash(opts.infoHash)])>>,
                <<>>)

\* clearInterval(handle): the timer with that handle, if live, is cancelled
ClearInterval(tm, handle) == { x \in tm : x.id # handle }

\* the handle setInterval returns: one no live timer has
FreshHandle(tm) ==
  CHOOSE i \in 0..Cardinality(tm) :
    /\ \A x \in tm : x.id # i
    /\ \A j \in 0..(i - 1) : \E x \in tm : x.id = j

\* variant: the running timer is not cancelled before the new one is started
HTTPTracker_setInterval_noclear(w, intervalMs) ==
  IF intervalMs # 0
    THEN LET h == FreshHandle(w.timers)
         IN  Effect([w.tracker EXCEPT !._intervalMs = intervalMs, !._interval = h],
                    w.timers \cup { [id |-> h, ms |-> intervalMs,
                                     opts |-> DefaultAnnounceOpts(w.client)] },
                    <<>>, <<>>)
    ELSE Effect([w.tracker EXCEPT !._intervalMs = intervalMs], w.timers, <<>>, <<>>)

\* HTTPTracker.prototype.setInterval: `update` binds the options object that
\* client._defaultAnnounceOpts() returns at this moment
HTTPTracker_setInterval(w, intervalMs) ==
  LET tm == ClearInterval(w.timers, w.tracker._interval)
  IN  IF intervalMs # 0
        THEN LET h == FreshHandle(tm)
             IN  Effect([w.tracker EXCEPT !._intervalMs = intervalMs, !._interval = h],
                        tm \cup { [id |-> h, ms |-> intervalMs,
                                   opts |-> DefaultAnnounceOpts(w.client)] },
                        <<>>, <<>>)
        ELSE Effect([w.tracker EXCEPT !._intervalMs = intervalMs], tm, <<>>, <<>>)

\* one tick of a live timer: update() calls announce with the bound options
\* object, which announce fills in and which stays bound for the next tick
TimerTick(w, x) ==
  LET e == HTTPTracker_announce(w, x.opts)
  IN  Effect(e.tracker,
             (e.timers \ {x}) \cup { [x EXCEPT !.opts = e.sent[1].opts] },
             e.sent, e.emitted)

(* ----------------------------- responses ------------------------------- *)
(* What get.concat hands to its callback: kind "error" (err is set),       *)
(* "status" (a status code other than 200), "empty" (no data),             *)
(* "undecodable" (bencode.decode throws) or "ok" with the decoded data.    *)
(* Decoded data is a record of the fields the handlers read; a numeric     *)
(* field that is absent is Nil, a byte-string field that is absent is "".  *)
(* peers and peers6 are [shape, addrs, throws, list]: shape "absent",      *)
(* "buffer" (addrs is what compact2string yields, throws says that it      *)
(* throws instead) or "list" (list holds the {ip, port} records).  files   *)
(* and host are [present, entries], entries in key order.                  *)

NoPeers == [shape |-> "absent", addrs |-> <<>>, throws |-> FALSE, list |-> <<>>]

NoFiles == [present |-> FALSE, entries |-> <<>>]

NoData ==
  [failure |-> "", warning |-> "", interval |-> Nil, min_interval |-> Nil,
   tracker_id |-> "", complete |-> Nil, incomplete |-> Nil,
   peers |-> NoPeers, peers6 |-> NoPeers, files |-> NoFiles, host |-> NoFiles]

Response(kind, data) == [kind |-> kind, data |-> data]

Warning(message) == Event("warning", [message |-> message])

HexDigits == <<"0", "1", "2", "3", "4", "5", "6", "7",
               "8", "9", "a", "b", "c", "d", "e", "f">>

\* common.binaryToHex: two hex digits per character of a binary string
RECURSIVE HexOfBytes(_)
HexOfBytes(bytes) ==
  IF bytes = <<>> THEN ""
  ELSE HexDigits[(Head(bytes) \div 16) + 1] \o HexDigits[(Head(bytes) % 16) + 1]
         \o HexOfBytes(Tail(bytes))

binaryToHex(str) == HexOfBytes(str.latin1)

\* the `peer` events of a peers field, and whether the compact codec threw
PeerEvents(field) ==
  IF field.shape = "buffer"
    THEN IF field.throws
           THEN [threw |-> TRUE, events |-> <<Warning("compact2string")>>]
           ELSE [threw |-> FALSE,
                 events |-> [ i \in 1..Len(field.addrs) |->
                                Event("peer", [addr |-> field.addrs[i]]) ]]
  ELSE IF field.shape = "list"
    THEN [threw |-> FALSE,
          events |-> [ i \in 1..Len(field.list) |->
                         Event("peer", [addr |-> field.list[i].ip.text \o ":"
                                                   \o field.list[i].port]) ]]
  ELSE [threw |-> FALSE, events |-> <<>>]

\* the `peer` events of a peers6 field: an ip that neither starts with '['
\* nor is free of ':' is wrapped in brackets
Peer6Events(field) ==
  IF field.shape = "list"
    THEN [threw |-> FALSE,
          events |-> [ i \in 1..Len(field.list) |->
             LET ip == field.list[i].ip
             IN  Event("peer",
                   [addr |-> (IF ip.bracket \/ ~ip.colon
                                THEN ip.text
                                ELSE "[" \o ip.text \o "]")
                             \o ":" \o field.list[i].port]) ]]
    ELSE PeerEvents(field)

\* data.interval || data['min interval']; Nil when neither is truthy
RecommendedInterval(data) ==
  IF data.interval # Nil /\ data.interval # 0 THEN data.interval
  ELSE IF data.min_interval # Nil /\ data.min_interval # 0 THEN data.min_interval
  ELSE Nil

\* variant: self._trackerId = data['tracker id'] without the `if (trackerId)` guard
_onAnnounceResponse_cleartid(w, data) ==
  LET interval == RecommendedInterval(data)
      e1 == IF interval # Nil /\ w.tracker._opts.interval = 0
                 /\ w.tracker._intervalMs # 0
              THEN HTTPTracker_setInterval(w, interval * 1000)
              ELSE Effect(w.tracker, w.timers, <<>>, <<>>)
      t2 == [e1.tracker EXCEPT !._trackerId = data.tracker_id]
      update == Event("update", [announce |-> t2._announceUrl,
                                 complete |-> data.complete,
                                 incomplete |-> data.incomplete])
      p4 == PeerEvents(data.peers)
      p6 == Peer6Events(data.peers6)
  IN  Effect(t2, e1.timers, <<>>,
             IF p4.threw THEN <<update>> \o p4.events
             ELSE <<update>> \o p4.events \o p6.events)

\* variant: the `self._intervalMs !== 0` test is missing
_onAnnounceResponse_rearm(w, data) ==
  LET interval == RecommendedInterval(data)
      e1 == IF interval # Nil /\ w.tracker._opts.interval = 0
              THEN HTTPTracker_setInterval(w, interval * 1000)
              ELSE Effect(w.tracker, w.timers, <<>>, <<>>)
      t2 == IF data.tracker_id # ""
              THEN [e1.tracker EXCEPT !._trackerId = data.tracker_id]
              ELSE e1.tracker
      update == Event("update", [announce |-> t2._announceUrl,
                                 complete |-> data.complete,
                                 incomplete |-> data.incomplete])
      p4 == PeerEvents(data.peers)
      p6 == Peer6Events(data.peers6)
  IN  Effect(t2, e1.timers, <<>>,
             IF p4.threw THEN <<update>> \o p4.events
             ELSE <<update>> \o p4.events \o p6.events)

\* HTTPTracker.prototype._onAnnounceResponse
_onAnnounceResponse(w, data) ==
  LET interval == RecommendedInterval(data)
      e1 == IF interval # Nil /\ w.tracker._opts.interval = 0
                 /\ w.tracker._intervalMs # 0
              THEN HTTPTracker_setInterval(w, interval * 1000)
              ELSE Effect(w.tracker, w.timers, <<>>, <<>>)
      t2 == IF data.tracker_id # ""
              THEN [e1.tracker EXCEPT !._trackerId = data.tracker_id]
              ELSE e1.tracker
      update == Event("update", [announce |-> t2._announceUrl,
                                 complete |-> data.complete,
                                 incomplete |-> data.incomplete])
      p4 == PeerEvents(data.peers)
      p6 == Peer6Events(data.peers6)
  IN  Effect(t2, e1.timers, <<>>,
             IF p4.threw THEN <<update>> \o p4.events
             ELSE <<update>> \o p4.events \o p6.events)

\* variant: data.host || data.files || {}
_onScrapeResponse_hostfirst(w, data) ==
  LET d == IF data.host.present THEN data.host.entries
           ELSE IF data.files.present THEN data.files.entries
           ELSE <<>>
  IN  IF Len(d) = 0
        THEN Effect(w.tracker, w.timers, <<>>, <<Warning("invalid scrape response")>>)
        ELSE Effect(w.tracker, w.timers, <<>>,
                    [ i \in 1..Len(d) |->
                        Event("scrape", [announce   |-> w.tracker._announceUrl,
                                         infoHash   |-> binaryToHex(d[i].key),
                                         complete   |-> d[i].complete,
                                         incomplete |-> d[i].incomplete,
                                         downloaded |-> d[i].downloaded]) ])

\* HTTPTracker.prototype._onScrapeResponse
_onScrapeResponse(w, data) ==
  LET d == IF data.files.present THEN data.files.entries
           ELSE IF data.host.present THEN data.host.entries
           ELSE <<>>
  IN  IF Len(d) = 0
        THEN Effect(w.tracker, w.timers, <<>>, <<Warning("invalid scrape response")>>)
        ELSE Effect(w.tracker, w.timers, <<>>,
                    [ i \in 1..Len(d) |->
                        Event("scrape", [announce   |-> w.tracker._announceUrl,
                                         infoHash   |-> binaryToHex(d[i].key),
                                         complete   |-> d[i].complete,
                                         incomplete |-> d[i].incomplete,
                                         downloaded |-> d[i].downloaded]) ])

\* the cb that announce (kind "announce") or scrape (kind "scrape") gave to _request
Callback(kind, w, data) ==
  IF kind = "announce" THEN _onAnnounceResponse(w, data) ELSE _onScrapeResponse(w, data)

\* variant: a `warning message` ends the handling like a `failure reason`
HTTPTracker_request_warnreturn(w, kind, res) ==
  IF res.kind = "error" THEN Effect(w.tracker, w.timers, <<>>, <<Warning("request error")>>)
  ELSE IF res.kind = "status"
    THEN Effect(w.tracker, w.timers, <<>>, <<Warning("Non-200 response code")>>)
  ELSE IF res.kind = "empty"
    THEN Effect(w.tracker, w.timers, <<>>, <<Warning("Invalid tracker response")>>)
  ELSE IF res.kind = "undecodable"
    THEN Effect(w.tracker, w.timers, <<>>, <<Warning("Error decoding tracker response")>>)
  ELSE IF res.data.failure # ""
    THEN Effect(w.tracker, w.timers, <<>>, <<Warning(res.data.failure)>>)
  ELSE IF res.data.warning # ""
    THEN Effect(w.tracker, w.timers, <<>>, <<Warning(res.data.warning)>>)
  ELSE Callback(kind, w, res.data)

\* variant: a `failure reason` is reported and the response is handled all the same
HTTPTracker_request_failthrough(w, kind, res) ==
  IF res.kind = "error" THEN Effect(w.tracker, w.timers, <<>>, <<Warning("request error")>>)
  ELSE IF res.kind = "status"
    THEN Effect(w.tracker, w.timers, <<>>, <<Warning("Non-200 response code")>>)
  ELSE IF res.kind = "empty"
    THEN Effect(w.tracker, w.timers, <<>>, <<Warning("Invalid tracker response")>>)
  ELSE IF res.kind = "undecodable"
    THEN Effect(w.tracker, w.timers, <<>>, <<Warning("Error decoding tracker response")>>)
  ELSE LET e == Callback(kind, w, res.data)
       IN  Effect(e.tracker, e.timers, e.sent,
                  (IF res.data.failure # "" THEN <<Warning(res.data.failure)>> ELSE <<>>)
                    \o e.emitted)

\* HTTPTracker.prototype._request from the get.concat callback on
HTTPTracker_request(w, kind, res) ==
  IF res.kind = "error" THEN Effect(w.tracker, w.timers, <<>>, <<Warning("request error")>>)
  ELSE IF res.kind = "status"
    THEN Effect(w.tracker, w.timers, <<>>, <<Warning("Non-200 response code")>>)
  ELSE IF res.kind = "empty"
    THEN Effect(w.tracker, w.timers, <<>>, <<Warning("Invalid tracker response")>>)
  ELSE IF res.kind = "undecodable"
    THEN Effect(w.tracker, w.timers, <<>>, <<Warning("Error decoding tracker response")>>)
  ELSE IF res.data.failure # ""
    THEN Effect(w.tracker, w.timers, <<>>, <<Warning(res.data.failure)>>)
  ELSE LET e == Callback(kind, w, res.data)
       IN  Effect(e.tracker, e.timers, e.sent,
                  (IF res.data.warning # "" THEN <<Warning(res.data.warning)>> ELSE <<>>)
                    \o e.emitted)

(* --------------------------- session inputs ---------------------------- *)

\* requests of one kind in flight at a time that are explored
MaxInFlight == 1

\* the client's default announce options change between these
ClientDefaults == { "d1", "d2" }

\* the owning client, as far as the session reads it
Client(defaults) == [_intervalMs |-> ClientIntervalMs, defaults |-> defaults]

\* opts.interval of the session: 0 for none, or a pinned interval
PinnedIntervals == { 0, 1500 }

\* the options a caller passes to announce
UserOpts ==
  { [base |-> "user", trackerid |-> "", compact |-> c, numwant |-> n,
     info_hash |-> NoBinary, peer_id |-> NoBinary, port |-> Nil] :
      c \in { Nil, 0 }, n \in { Nil, 7 } }

\* the options a caller passes to scrape
ScrapeOpts ==
  { [infoHash |-> [form |-> "absent", hashes |-> <<>>]],
    [infoHash |-> [form |-> "single", hashes |-> <<ClientPeerId>>]],
    [infoHash |-> [form |-> "array", hashes |-> <<>>]],
    [infoHash |-> [form |-> "array", hashes |-> <<ClientInfoHash, ClientPeerId>>]] }

\* the arguments setInterval is called with
IntervalArgs == { 0, 5000 }

\* the ways a request fails before any data is decoded
TransportFailures ==
  { Response(k, NoData) : k \in { "error", "status", "empty", "undecodable" } }

\* decoded responses that differ in the fields the session negotiates on;
\* a failure reason or warning message comes with one choice of intervals
SessionData ==
  { [NoData EXCEPT !.interval = i, !.min_interval = m, !.tracker_id = tid,
                   !.failure = f, !.warning = wm] :
      i \in { Nil, 0, 2 }, m \in { Nil, 1 }, tid \in { "", "t1", "t2" },
      f \in { "", "bad request" }, wm \in { "", "slow down" } }

SessionResponses ==
  TransportFailures \cup
  { Response("ok", d) : d \in { x \in SessionData :
        (x.failure # "" \/ x.warning # "") => (x.interval = 2 /\ x.min_interval = Nil) } }

(* --------------------------- state machine ----------------------------- *)

Registry == [peers |-> peers, complete |-> complete, incomplete |-> incomplete]

NoParams ==
  [addr |-> "", ip |-> "", port |-> 0, peer_id |-> "", left |-> 0,
   event |-> Absent, numwant |-> 0]

\* function Swarm (infoHash, server)
SwarmNew ==
  /\ peers = <<>>
  /\ complete = 0
  /\ incomplete = 0
  /\ op = "new"
  /\ params = NoParams
  /\ pre = [peers |-> <<>>, complete |-> 0, incomplete |-> 0]
  /\ emitted = <<>>
  /\ cbs = <<>>
  /\ threw = FALSE

\* a client with one new session for announceUrl; nothing is scheduled or in flight
SessionNew(announceUrl, pinned) ==
  /\ client = Client("d1")
  /\ tracker = HTTPTracker(client, announceUrl, pinned)
  /\ timers = {}
  /\ pending = [announce |-> 0, scrape |-> 0]
  /\ received = ""
  /\ last = [act |-> "new", input |-> [none |-> TRUE], pre |-> World,
             emitted |-> <<>>, sent |-> <<>>]

Init ==
  /\ SwarmNew
  /\ SessionNew([upto |-> "http://t", stem |-> "announce", rest |-> ""], 0)

InRange(n) == n >= -MaxCount /\ n <= MaxCount

Apply(name, p, r) ==
  /\ InRange(r.complete) /\ InRange(r.incomplete)
  /\ peers' = r.peers
  /\ complete' = r.complete
  /\ incomplete' = r.incomplete
  /\ op' = name
  /\ params' = p
  /\ pre' = Registry
  /\ emitted' = r.emitted
  /\ cbs' = r.cbs
  /\ threw' = r.threw
  /\ UNCHANGED trackerVars

AnnounceCall == \E p \in ParamsSet : Apply("announce", p, announce(Registry, p))

ScrapeCall == Apply("scrape", NoParams, scrape(Registry))

Next == AnnounceCall \/ ScrapeCall

Spec == Init /\ [][Next]_vars

(* ------------------------ session state machine ------------------------ *)

\* the requests of kind k among those a step sent
SentOf(sent, k) == Len(SelectSeq(sent, LAMBDA r : r.kind = k))

\* one step of the session: e is the effect of the operation that ran,
\* answered is the kind of the request that completed ("" if none did)
Step(act, input, e, answered) ==
  /\ \A k \in { "announce", "scrape" } :
       pending[k] + SentOf(e.sent, k) - (IF answered = k THEN 1 ELSE 0) <= MaxInFlight
  /\ tracker' = e.tracker
  /\ timers' = e.timers
  /\ pending' = [ k \in { "announce", "scrape" } |->
                    pending[k] + SentOf(e.sent, k) - (IF answered = k THEN 1 ELSE 0) ]
  /\ last' = [act |-> act, input |-> input, pre |-> World,
              emitted |-> e.emitted, sent |-> e.sent]
  /\ UNCHANGED <<client, swarmVars>>

\* a caller announces
CallAnnounce ==
  \E o \in UserOpts :
    /\ Step("announce", [opts |-> o], HTTPTracker_announce(World, o), "")
    /\ UNCHANGED received

\* a caller scrapes
CallScrape ==
  \E o \in ScrapeOpts :
    /\ Step("scrape", [opts |-> o], HTTPTracker_scrape(World, o), "")
    /\ UNCHANGED received

\* a caller sets the re-announce interval
CallSetInterval ==
  \E ms \in IntervalArgs :
    /\ Step("setInterval", [ms |-> ms], HTTPTracker_setInterval(World, ms), "")
    /\ UNCHANGED received

\* a live timer fires
Tick ==
  \E x \in timers :
    /\ Step("tick", [timer |-> x], TimerTick(World, x), "")
    /\ UNCHANGED received

\* the most recent non-empty tracker id that a successful announce response carried
Received(kind, res) ==
  IF kind = "announce" /\ res.kind = "ok" /\ res.data.failure = ""
       /\ res.data.tracker_id # ""
    THEN res.data.tracker_id
    ELSE received

\* a request in flight completes with one of the responses given for its kind
Complete(responses) ==
  \E kind \in { "announce", "scrape" } : \E res \in responses[kind] :
    /\ pending[kind] > 0
    /\ Step("response", [kind |-> kind, res |-> res],
            HTTPTracker_request(World, kind, res), kind)
    /\ received' = Received(kind, res)

\* the client's default announce options change
ClientChange ==
  \E d \in ClientDefaults \ { client.defaults } :
    /\ client' = Client(d)
    /\ last' = [act |-> "client", input |-> [defaults |-> d], pre |-> World,
                emitted |-> <<>>, sent |-> <<>>]
    /\ UNCHANGED <<tracker, timers, pending, received, swarmVars>>

SessionResponse ==
  Complete([announce |-> SessionResponses, scrape |-> SessionResponses])

SessionInit ==
  /\ SwarmNew
  /\ \E u \in AnnounceUrls, p \in PinnedIntervals : SessionNew(u, p)

SessionNext ==
  \/ CallAnnounce
  \/ CallScrape
  \/ CallSetInterval
  \/ Tick
  \/ SessionResponse
  \/ ClientChange

SessionSpec == SessionInit /\ [][SessionNext]_vars

(* ----------------------- response interpretation ----------------------- *)
(* ResponseSpec runs the same session with responses that differ in the    *)
(* shapes the handlers interpret: compact and verbose peers and peers6,    *)
(* files and host mappings, failure reason and warning message.            *)

Ip(text, bracket, colon) == [text |-> text, bracket |-> bracket, colon |-> colon]

\* the shapes of a `peers` field
PeersFields ==
  { NoPeers,
    [NoPeers EXCEPT !.shape = "buffer", !.addrs = <<"10.0.0.1:6881", "10.0.0.2:6882">>],
    [NoPeers EXCEPT !.shape = "buffer", !.throws = TRUE],
    [NoPeers EXCEPT !.shape = "list",
       !.list = <<[ip |-> Ip("10.0.0.3", FALSE, FALSE), port |-> "6883"]>>] }

\* the shapes of a `peers6` field: a bare literal, a bracketed one, a domain name
Peers6Fields ==
  { NoPeers,
    [NoPeers EXCEPT !.shape = "buffer", !.addrs = <<"[::2]:6882">>],
    [NoPeers EXCEPT !.shape = "buffer", !.throws = TRUE],
    [NoPeers EXCEPT !.shape = "list",
       !.list = <<[ip |-> Ip("::1", FALSE, TRUE), port |-> "6881"],
                  [ip |-> Ip("[::1]", TRUE, TRUE), port |-> "6881"],
                  [ip |-> Ip("peer.example", FALSE, FALSE), port |-> "6881"]>>] }

ScrapeEntry(key, c, i, d) ==
  [key |-> BinaryString(key), complete |-> c, incomplete |-> i, downloaded |-> d]

\* a `files` or `host` field: absent, empty, or with one or two info hashes
FilesFields ==
  { NoFiles,
    [present |-> TRUE, entries |-> <<>>],
    [present |-> TRUE, entries |-> <<ScrapeEntry(<<1, 171>>, 3, 5, 10)>>],
    [present |-> TRUE, entries |-> <<ScrapeEntry(<<255, 0>>, 1, 0, 2),
                                     ScrapeEntry(<<1, 171>>, 3, 5, 10)>>] }

HostFields ==
  { NoFiles,
    [present |-> TRUE, entries |-> <<>>],
    [present |-> TRUE, entries |-> <<ScrapeEntry(<<16, 9>>, 4, 4, 4)>>] }

AnnounceResponses ==
  { Response("ok", [NoData EXCEPT !.failure = f, !.warning = wm, !.interval = i,
                                  !.tracker_id = tid, !.complete = 3, !.incomplete = 5,
                                  !.peers = p4, !.peers6 = p6]) :
      f \in { "", "bad request" }, wm \in { "", "slow down" }, i \in { Nil, 2 },
      tid \in { "", "t1" }, p4 \in PeersFields, p6 \in Peers6Fields }

ScrapeResponses ==
  { Response("ok", [NoData EXCEPT !.failure = f, !.warning = wm,
                                  !.files = fl, !.host = h]) :
      f \in { "", "bad request" }, wm \in { "", "slow down" },
      fl \in FilesFields, h \in HostFields }

RichResponse ==
  Complete([announce |-> AnnounceResponses, scrape |-> ScrapeResponses])

ResponseNext ==
  \/ CallAnnounce
  \/ CallScrape
  \/ CallSetInterval
  \/ RichResponse

ResponseSpec == SessionInit /\ [][ResponseNext]_vars

(* ----------------------- vocabulary of the properties ------------------ *)

\* the slots of a peer map that hold a live record
LiveIdx(ps) == { i \in 1..Len(ps) : Truthy(ps[i].val) }

LiveCount(ps) == Cardinality(LiveIdx(ps))

\* the keys of a peer map, in slot order
Keys(ps) == [ i \in 1..Len(ps) |-> ps[i].addr ]

IsPrefix(a, b) == Len(a) <= Len(b) /\ \A i \in 1..Len(a) : a[i] = b[i]

\* the live slots of a peer map, in slot order
LiveSeq(ps) == SelectSeq(ps, LAMBDA sl : Truthy(sl.val))

\* the response entry of a live slot
PeerTuple(sl) == [peer_id |-> sl.val.peerId, ip |-> sl.val.ip, port |-> sl.val.port]

\* the slot value of the announced address before and after the last call
PrePeer == Lookup(pre.peers, params.addr)
PostPeer == Lookup(peers, params.addr)

\* the events the protocol defines, as a request carries them
Recognized == { "started", "stopped", "completed", "update", "empty", Absent }

\* the last call was an announce carrying event ev
Announced(ev) == op = "announce" /\ params.event = ev

\* the registry, notifications and callback invocations of the last call are those of r
SameAs(r) ==
  /\ peers = r.peers
  /\ complete = r.complete
  /\ incomplete = r.incomplete
  /\ emitted = r.emitted
  /\ cbs = r.cbs

\* the last call left the registry as it was and emitted nothing
Untouched ==
  /\ peers = pre.peers
  /\ complete = pre.complete
  /\ incomplete = pre.incomplete
  /\ emitted = <<>>

(* ------------------------------- C1 ------------------------------------ *)

\* C1: in every reachable state complete + incomplete equals the number of
\* live (non-tombstoned) entries of the peer map.
C1_SumIsLiveCount == complete + incomplete = LiveCount(peers)

\* a registry with a tombstone, two live records and both counters in use
C1_Witness ==
  /\ op = "announce"
  /\ \E i \in 1..Len(peers) : peers[i].val = Null
  /\ LiveCount(peers) = 2
  /\ complete = 1
  /\ incomplete = 1

(* ------------------------------- C2 ------------------------------------ *)

\* C2: complete equals the number of live records whose complete flag is
\* true, incomplete the number of live records whose flag is not true, and
\* neither counter is negative.
C2_BucketsMatchFlags ==
  /\ complete = Cardinality({ i \in LiveIdx(peers) : peers[i].val.complete })
  /\ incomplete = Cardinality({ i \in LiveIdx(peers) : ~peers[i].val.complete })
  /\ complete >= 0
  /\ incomplete >= 0

(* ------------------------------- C3 ------------------------------------ *)

\* C3: a `started` announce for an address that already has a live record
\* ends in the same peer map and counters, emits the same notifications and
\* delivers the same response as an `update` announce with the same
\* parameters would from the same registry.
C3_StartedAgainIsUpdate ==
  (Announced("started") /\ Truthy(PrePeer))
    => SameAs(announce(pre, [params EXCEPT !.event = "update"]))

(* ------------------------------- C4 ------------------------------------ *)

\* C4: a `stopped` announce for an address without a live record leaves the
\* peer map and both counters unchanged and emits nothing; after any
\* `stopped` announce, one more `stopped` for that address changes nothing.
C4_StoppedWithoutRecordIsNoOp ==
  /\ (Announced("stopped") /\ ~Truthy(PrePeer)) => Untouched
  /\ Announced("stopped") =>
       LET r == announce(Registry, params)
       IN  /\ r.peers = peers
           /\ r.complete = complete
           /\ r.incomplete = incomplete
           /\ r.emitted = <<>>

\* `stopped` arrived for an address whose slot already held a tombstone
C4_Witness ==
  /\ Announced("stopped")
  /\ PrePeer = Null
  /\ LiveCount(peers) >= 1

(* ------------------------------- C5 ------------------------------------ *)

\* C5: a `completed` or `update` announce (also with an empty or absent
\* event) for an address without a live record ends in the same registry,
\* emits the same notifications and delivers the same response as a
\* `started` announce with the same parameters: the record exists, one
\* counter was incremented and `start` was emitted.
C5_UnknownPeerIsStarted ==
  (op = "announce" /\ params.event \in { "completed", "update", "empty", Absent }
     /\ ~Truthy(PrePeer))
    => /\ SameAs(announce(pre, [params EXCEPT !.event = "started"]))
       /\ Truthy(PostPeer)
       /\ complete + incomplete = pre.complete + pre.incomplete + 1
       /\ emitted = <<Emit("start", params.addr)>>

(* ------------------------------- C6 ------------------------------------ *)

\* C6: a `completed` announce for a live record not marked complete moves
\* one unit from incomplete to complete, sets the record's flag, leaves the
\* other slots alone and emits `complete`; one more `completed` for that
\* address then changes neither the peer map nor a counter and emits nothing.
C6_CompletedOnce ==
  (Announced("completed") /\ Truthy(PrePeer) /\ ~PrePeer.complete)
    => /\ complete = pre.complete + 1
       /\ incomplete = pre.incomplete - 1
       /\ peers = SetPeer(pre.peers, params.addr, [PrePeer EXCEPT !.complete = TRUE])
       /\ emitted = <<Emit("complete", params.addr)>>
       /\ \A l \in Lefts :
            LET r == announce(Registry, [params EXCEPT !.left = l])
            IN  /\ r.peers = peers
                /\ r.complete = complete
                /\ r.incomplete = incomplete
                /\ r.emitted = <<>>

\* `completed` arrived for a live record that was not marked complete
C6_Witness ==
  /\ Announced("completed")
  /\ Truthy(PrePeer)
  /\ ~PrePeer.complete
  /\ params.left = 1

(* ------------------------------- C7 ------------------------------------ *)

\* C7: for every n >= 0, _getPeers(n) has at most n entries, and they are
\* the first live records of the peer map in the order their addresses were
\* first inserted (a call never reorders the keys); with A, B, C started and
\* B stopped, _getPeers(2) is [A, C]; the peer list of an announce response
\* is _getPeers(numwant) and has at most numwant entries.
C7_GetPeersBoundedOrdered ==
  /\ \A n \in 0..(Len(peers) + 1) :
       LET r == _getPeers(peers, n)
       IN  /\ Len(r) <= n
           /\ Len(r) <= Len(LiveSeq(peers))
           /\ \A k \in 1..Len(r) : r[k] = PeerTuple(LiveSeq(peers)[k])
  /\ IsPrefix(Keys(pre.peers), Keys(peers))
  /\ (Keys(peers) = <<"A", "B", "C">> /\ LiveIdx(peers) = {1, 3})
       => [ k \in 1..2 |-> _getPeers(peers, 2)[k].peer_id ] = <<"idA", "idC">>
  /\ (op = "announce" /\ Len(cbs) > 0 /\ cbs[1].err = "null")
       => /\ Len(cbs[1].peers) <= params.numwant
          /\ cbs[1].peers = _getPeers(peers, params.numwant)

\* A, B and C were started in that order and B has stopped, and the last
\* announce asked for fewer peers than are live
C7_Witness ==
  /\ Keys(peers) = <<"A", "B", "C">>
  /\ LiveIdx(peers) = {1, 3}
  /\ op = "announce"
  /\ Len(cbs) = 1
  /\ params.numwant = 1

(* ------------------------------- C8 ------------------------------------ *)

\* C8: an announce whose event is not started, stopped, completed, update,
\* empty or absent invokes the callback once, with an invalid-event error
\* and no response, emits nothing, and leaves the peer map and both
\* counters unchanged.
C8_InvalidEventFails ==
  (op = "announce" /\ params.event \notin Recognized)
    => /\ cbs = <<[err |-> "invalid event"]>>
       /\ ~threw
       /\ Untouched

\* an unknown event arrived at a registry that holds live records
C8_Witness ==
  /\ Announced("paused")
  /\ LiveCount(peers) >= 2

(* ------------------------------- C9 ------------------------------------ *)

\* C9: every announce with a recognized event invokes its callback exactly
\* once, with a response whose complete and incomplete are the counters
\* after the call and whose peer list has at most numwant entries.
C9_RecognizedAnnounceResponds ==
  (op = "announce" /\ params.event \in Recognized)
    => /\ Len(cbs) = 1
       /\ cbs[1].err = "null"
       /\ cbs[1].complete = complete
       /\ cbs[1].incomplete = incomplete
       /\ Len(cbs[1].peers) <= params.numwant

(* ------------------------------- C10 ----------------------------------- *)

\* C10: after an announce with left = 0 that leaves a live record at the
\* announced address the record's complete flag is true, and a record
\* created by `started` has complete = (left = 0).
C10_ZeroLeftMarksComplete ==
  /\ (op = "announce" /\ params.left = 0 /\ Truthy(PostPeer)) => PostPeer.complete
  /\ (Announced("started") /\ ~Truthy(PrePeer) /\ Truthy(PostPeer))
       => PostPeer.complete = (params.left = 0)

(* ------------------------------- C19 ----------------------------------- *)

\* the slot of address a in peer map ps
SlotOf(ps, a) == CHOOSE i \in 1..Len(ps) : ps[i].addr = a

\* C19: a peer that stopped and is started again re-joins through its
\* retained slot.  No address has two slots, and a call adds a slot only
\* when `started` arrives for an address that has none, so the peer map
\* holds one slot per address ever started; after the restart the address
\* has a live record in the slot it had, the two counters together count
\* one record more and count the live records, and _getPeers lists the peer
\* after exactly the live peers whose slots precede its own.
C19_RestartKeepsSlot ==
  /\ \A i, j \in 1..Len(peers) : peers[i].addr = peers[j].addr => i = j
  /\ Keys(peers) = IF Announced("started") /\ PrePeer = Undefined
                     THEN Append(Keys(pre.peers), params.addr)
                     ELSE Keys(pre.peers)
  /\ (Announced("started") /\ PrePeer = Null)
       => /\ Truthy(PostPeer)
          /\ SlotOf(peers, params.addr) = SlotOf(pre.peers, params.addr)
          /\ LiveCount(peers) = LiveCount(pre.peers) + 1
          /\ complete + incomplete = pre.complete + pre.incomplete + 1
          /\ complete + incomplete = LiveCount(peers)
          /\ LET all == _getPeers(peers, Len(peers))
                 k   == Cardinality({ i \in LiveIdx(peers) :
                                        i <= SlotOf(peers, params.addr) })
             IN  /\ Len(all) = LiveCount(peers)
                 /\ all[k].peer_id = params.peer_id
                 /\ \A j \in 1..Len(all) : j # k => all[j].peer_id # params.peer_id

\* a stopped peer was started again while a peer that joined after it is live
C19_Witness ==
  /\ Announced("started")
  /\ PrePeer = Null
  /\ SlotOf(peers, params.addr) = 1
  /\ 2 \in LiveIdx(peers)
  /\ _getPeers(peers, 2)[1].peer_id = params.peer_id

(* ---------------- vocabulary of the session properties ----------------- *)

\* the last step was a completed request of the given kind
Answered(kind) == last.act = "response" /\ last.input.kind = kind

\* the last step was a completed request whose data was decoded
Decoded == last.act = "response" /\ last.input.res.kind = "ok"

\* the last step was a completed request that failed: in transport, in
\* decoding, or by a `failure reason`
Failed ==
  /\ last.act = "response"
  /\ (last.input.res.kind = "ok" => last.input.res.data.failure # "")

\* the events of the given name that the last step emitted
EventsOf(name) == SelectSeq(last.emitted, LAMBDA ev : ev.name = name)

(* ------------------------------- C11 ----------------------------------- *)

\* C11: the session's tracker id is the most recent non-empty `tracker id`
\* that a successful announce response carried; every announce request,
\* from a caller or from the timer, carries it as `trackerid` (and none
\* when none was received); a response without `tracker id`, a failed
\* request, a scrape response and every other step leave it unchanged.
C11_TrackerIdSticky ==
  /\ tracker._trackerId = received
  /\ last.act \in { "announce", "tick" }
       => /\ Len(last.sent) = 1
          /\ last.sent[1].kind = "announce"
          /\ last.sent[1].opts.trackerid = received
  /\ ~(Answered("announce") /\ Decoded /\ ~Failed
         /\ last.input.res.data.tracker_id # "")
       => tracker._trackerId = last.pre.tracker._trackerId

\* the timer fires with options that still carry the id of an earlier
\* tick, after a later response brought another id
C11_Witness ==
  /\ last.act = "tick"
  /\ last.input.timer.opts.trackerid = "t1"
  /\ received = "t2"
  /\ last.sent[1].opts.trackerid = "t2"

(* ------------------------------- C12 ----------------------------------- *)

\* C12: in every reachable state at most one re-announce timer is live, and
\* a live timer is the one the session holds the handle of and runs at the
\* session's interval; a setInterval call, whatever ran before it, leaves
\* exactly one live timer with the interval given, and none when given 0.
C12_AtMostOneTimer ==
  /\ Cardinality(timers) <= 1
  /\ \A x \in timers : x.id = tracker._interval /\ x.ms = tracker._intervalMs
  /\ last.act = "setInterval" =>
       IF last.input.ms = 0
         THEN timers = {}
         ELSE Cardinality(timers) = 1 /\ \A x \in timers : x.ms = last.input.ms
  /\ \A ms \in { 0, 5000, 7000 } :
       LET e == HTTPTracker_setInterval(World, ms)
       IN  /\ Cardinality(e.timers) = (IF ms = 0 THEN 0 ELSE 1)
           /\ \A x \in e.timers : x.ms = ms

\* setInterval was called while a timer with another interval was live
C12_Witness ==
  /\ last.act = "setInterval"
  /\ last.input.ms = 5000
  /\ \E x \in last.pre.timers : x.ms = 2000
  /\ Cardinality(timers) = 1

(* ------------------------------- C13 ----------------------------------- *)

\* the announce response that completed in the last step, when it was
\* decoded and carried no failure reason
Negotiated == Answered("announce") /\ Decoded /\ ~Failed

\* the interval a response carries: `interval`, or `min interval` when
\* `interval` is absent
CarriedInterval(d) == IF d.interval # Nil THEN d.interval ELSE d.min_interval

\* the interval a response offers: `interval` unless absent or zero, else
\* `min interval` unless absent or zero
OfferedInterval(d) ==
  IF d.interval \notin { Nil, 0 } THEN d.interval
  ELSE IF d.min_interval \notin { Nil, 0 } THEN d.min_interval
  ELSE Nil

\* the last step left the session's interval and timer as they were
SameSchedule ==
  /\ tracker._intervalMs = last.pre.tracker._intervalMs
  /\ tracker._interval = last.pre.tracker._interval
  /\ timers = last.pre.timers

\* the last step made ms the session's interval and left one timer, newly
\* scheduled with that interval (none when ms is 0)
Rescheduled(ms) ==
  /\ tracker._intervalMs = ms
  /\ timers = IF ms = 0 THEN {}
              ELSE { [id |-> tracker._interval, ms |-> ms,
                      opts |-> DefaultAnnounceOpts(client)] }

\* a disabled session (interval 0) has no timer, and no tick happens in it
DisabledStaysQuiet ==
  /\ tracker._intervalMs = 0 => timers = {}
  /\ last.act = "tick" => last.pre.tracker._intervalMs # 0
  /\ (last.act = "response" /\ last.pre.tracker._intervalMs = 0) => SameSchedule

\* C13 as claimed: an announce response that carries `interval` (or `min
\* interval` when `interval` is absent), for a session without a pinned
\* interval whose intervalMs is not 0, makes intervalMs the carried value
\* times 1000 and reschedules the timer; every other announce response
\* leaves interval and timer alone; a disabled session stays disabled.
C13_AsClaimed ==
  /\ Answered("announce") =>
       IF Negotiated /\ CarriedInterval(last.input.res.data) # Nil
            /\ last.pre.tracker._opts.interval = 0
            /\ last.pre.tracker._intervalMs # 0
         THEN Rescheduled(CarriedInterval(last.input.res.data) * 1000)
         ELSE SameSchedule
  /\ DisabledStaysQuiet

\* C13 (amended): as claimed, with the interval a response offers being
\* `interval` unless it is absent or zero, and else `min interval` unless
\* that is absent or zero.
C13_IntervalNegotiation ==
  /\ Answered("announce") =>
       IF Negotiated /\ OfferedInterval(last.input.res.data) # Nil
            /\ last.pre.tracker._opts.interval = 0
            /\ last.pre.tracker._intervalMs # 0
         THEN Rescheduled(OfferedInterval(last.input.res.data) * 1000)
         ELSE SameSchedule
  /\ DisabledStaysQuiet

\* the response of an announce that was in flight when setInterval(0) was
\* called arrives with an interval, and no timer is started
C13_Witness ==
  /\ Negotiated
  /\ last.input.res.data.interval = 2
  /\ last.pre.tracker._opts.interval = 0
  /\ last.pre.tracker._intervalMs = 0
  /\ timers = {}

(* ------------------------------- C15 ----------------------------------- *)

\* C15: a request that fails (request error, status other than 200, empty
\* body, undecodable body, failure reason) is reported as exactly one
\* `warning` and nothing else, sends nothing, and leaves the session (its
\* interval, tracker id and timer handle) and the live timers as they were;
\* every timer that is live then still issues one announce when it ticks,
\* and every tick that happens issues exactly one announce.
C15_FailuresAreWarnings ==
  /\ Failed =>
       /\ Len(last.emitted) = 1
       /\ last.emitted[1].name = "warning"
       /\ last.sent = <<>>
       /\ tracker = last.pre.tracker
       /\ timers = last.pre.timers
       /\ \A x \in timers :
            LET e == TimerTick(World, x)
            IN  /\ Len(e.sent) = 1
                /\ e.sent[1].kind = "announce"
                /\ e.sent[1].url = tracker._announceUrl
                /\ Cardinality(e.timers) = 1
  /\ last.act = "tick" =>
       /\ Len(last.sent) = 1
       /\ last.sent[1].kind = "announce"
       /\ timers # {}

\* a request failed undecodably while a timer was live
C15_Witness ==
  /\ Failed
  /\ last.input.res.kind = "undecodable"
  /\ timers # {}
  /\ tracker._trackerId # ""

(* ------------------------------- C17 ----------------------------------- *)

\* C17: a session whose announce URL does not end in a segment that begins
\* with `announce` has no scrape URL, and a scrape call on it emits exactly
\* one `error` (scrape not supported), sends no request and leaves the
\* session and its timers as they were; on a session with a scrape URL a
\* scrape call emits nothing and sends exactly one request, to the scrape URL.
C17_ScrapeNeedsUrl ==
  /\ (tracker._scrapeUrl = NoUrl) <=> (tracker._announceUrl.stem # "announce")
  /\ tracker._scrapeUrl # NoUrl
       => tracker._scrapeUrl = [tracker._announceUrl EXCEPT !.stem = "scrape"]
  /\ last.act = "scrape" =>
       /\ tracker = last.pre.tracker
       /\ timers = last.pre.timers
       /\ IF tracker._announceUrl.stem # "announce"
            THEN /\ last.sent = <<>>
                 /\ Len(last.emitted) = 1
                 /\ last.emitted[1].name = "error"
            ELSE /\ last.emitted = <<>>
                 /\ Len(last.sent) = 1
                 /\ last.sent[1].kind = "scrape"
                 /\ last.sent[1].url = tracker._scrapeUrl

\* scrape was called on a session without scrape URL while its timer was live
C17_Witness ==
  /\ last.act = "scrape"
  /\ tracker._scrapeUrl = NoUrl
  /\ timers # {}
  /\ last.emitted # <<>>

(* ------------------------------- C18 ----------------------------------- *)

\* C18: the announce a timer tick issues carries the client's default
\* announce options as they are when the timer fires.
C18_TickUsesCurrentDefaults ==
  last.act = "tick" =>
    /\ Len(last.sent) = 1
    /\ last.sent[1].opts.base = client.defaults

(* ------------------------------- C14 ----------------------------------- *)

\* C14: a decoded response with a non-empty `failure reason` yields exactly
\* one event, a `warning` with that message: no `peer`, `update` or `scrape`
\* event, and no second warning, whatever else the response carries.
C14_FailureReasonOnlyWarns ==
  (Decoded /\ last.input.res.data.failure # "")
    => /\ last.emitted = <<Warning(last.input.res.data.failure)>>
       /\ EventsOf("peer") = <<>>
       /\ EventsOf("update") = <<>>
       /\ EventsOf("scrape") = <<>>

\* an announce response carried a failure reason together with a warning
\* message, an interval, a tracker id and peers
C14_Witness ==
  /\ Answered("announce")
  /\ Decoded
  /\ last.input.res.data.failure = "bad request"
  /\ last.input.res.data.warning # ""
  /\ last.input.res.data.interval = 2
  /\ last.input.res.data.tracker_id = "t1"
  /\ last.input.res.data.peers.shape = "list"
  /\ last.input.res.data.peers6.shape = "buffer"

(* ------------------------------- C16 ----------------------------------- *)

\* the scrape response handled in the last step
ScrapeHandled == Answered("scrape") /\ Decoded /\ ~Failed

\* the mapping of a scrape response: `files` when present, `host` otherwise
SelectedMapping(d) == IF d.files.present THEN d.files.entries ELSE d.host.entries

\* the `invalid scrape response` warnings of the last step
InvalidScrapeWarnings ==
  SelectSeq(last.emitted, LAMBDA ev : ev = Warning("invalid scrape response"))

\* one `scrape` event per key of the selected mapping, in key order, with
\* the announce URL, the hex info hash and the three counts
OneScrapeEventPerKey ==
  LET sel == SelectedMapping(last.input.res.data)
  IN  /\ Len(EventsOf("scrape")) = Len(sel)
      /\ \A i \in 1..Len(sel) :
           EventsOf("scrape")[i].payload =
             [announce   |-> tracker._announceUrl,
              infoHash   |-> binaryToHex(sel[i].key),
              complete   |-> sel[i].complete,
              incomplete |-> sel[i].incomplete,
              downloaded |-> sel[i].downloaded]
      /\ \A i \in 1..Len(sel) :
           sel[i].key = BinaryString(<<1, 171>>)
             => EventsOf("scrape")[i].payload.infoHash = "01ab"

\* C16 as claimed: `files` is used when present and `host` otherwise, with
\* one `scrape` event per key; the invalid-scrape-response warning is
\* emitted, once, exactly when neither `files` nor `host` is a non-empty
\* mapping.
C16_AsClaimed ==
  ScrapeHandled =>
    /\ OneScrapeEventPerKey
    /\ Len(InvalidScrapeWarnings) <= 1
    /\ (Len(InvalidScrapeWarnings) = 1)
         <=> (Len(last.input.res.data.files.entries) = 0
                /\ Len(last.input.res.data.host.entries) = 0)

\* C16 (amended): as claimed, but the invalid-scrape-response warning is
\* emitted, once, exactly when the selected mapping (`files` when present,
\* `host` otherwise) is empty or absent.
C16_ScrapeEvents ==
  ScrapeHandled =>
    /\ OneScrapeEventPerKey
    /\ Len(InvalidScrapeWarnings) <= 1
    /\ (Len(InvalidScrapeWarnings) = 1)
         <=> (Len(SelectedMapping(last.input.res.data)) = 0)
    /\ tracker = last.pre.tracker
    /\ last.sent = <<>>

\* a scrape response carried `files` for two info hashes and a `host` mapping
C16_Witness ==
  /\ ScrapeHandled
  /\ Len(last.input.res.data.files.entries) = 2
  /\ Len(last.input.res.data.host.entries) = 1
  /\ Len(EventsOf("scrape")) = 2

(* ------------------------------- C20 ----------------------------------- *)

\* an announce response without failure reason whose compact peers decode
WellFormedAnnounce ==
  /\ Answered("announce")
  /\ Decoded
  /\ ~Failed
  /\ ~last.input.res.data.peers.throws
  /\ ~last.input.res.data.peers6.throws

\* C20: a well-formed announce response with a `warning message` yields
\* exactly one `warning`, as its first event, and then exactly the events,
\* session and timers that the same response without the warning message
\* yields: the tracker id and interval are negotiated, one `update` follows
\* the warning and every `peer` event follows the `update`.
C20_WarningThenUpdate ==
  (WellFormedAnnounce /\ last.input.res.data.warning # "")
    => LET d == last.input.res.data
           e == HTTPTracker_request(last.pre, "announce",
                                    Response("ok", [d EXCEPT !.warning = ""]))
       IN  /\ last.emitted = <<Warning(d.warning)>> \o e.emitted
           /\ tracker = e.tracker
           /\ timers = e.timers
           /\ Len(EventsOf("warning")) = 1
           /\ Len(EventsOf("update")) = 1
           /\ last.emitted[2].name = "update"
           /\ \A i \in 3..Len(last.emitted) : last.emitted[i].name = "peer"
           /\ d.tracker_id # "" => tracker._trackerId = d.tracker_id
           /\ (d.interval # Nil /\ last.pre.tracker._opts.interval = 0
                 /\ last.pre.tracker._intervalMs # 0)
                => tracker._intervalMs = d.interval * 1000

\* a response with a warning message renegotiated the interval and the
\* tracker id and brought peers in both forms
C20_Witness ==
  /\ WellFormedAnnounce
  /\ last.input.res.data.warning # ""
  /\ last.input.res.data.tracker_id = "t1"
  /\ tracker._intervalMs = 2000
  /\ last.pre.tracker._intervalMs # 2000
  /\ Len(EventsOf("peer")) = 4

====
